---- MODULE Spec2Model ----
(***************************************************************************)
(* A state-machine model of yLab::RB_Tree (include/rb_tree.hpp).           *)
(*                                                                         *)
(* The heap is a function from addresses to node records.  An address is   *)
(* a pair <<r, i>>: r names the allocation region created together with a  *)
(* sentinel (std::make_unique<end_node_type>()), i = 0 is the sentinel of  *)
(* that region and i > 0 is the i-th node pushed into the arena nodes_     *)
(* that travels with this sentinel.  Distinct objects have distinct        *)
(* addresses, iterator equality is address equality.                       *)
(*                                                                         *)
(* The headers nodes.hpp, details.hpp and tree_iterator.hpp are modelled   *)
(* from the written specification (sections 3, 4.1, 4.2, 4.3).             *)
(***************************************************************************)
EXTENDS Integers, Sequences, FiniteSets, TLC

\* Bounds of the two-tree specification Spec.
MaxKey == 3
\* Bounds of the one-tree specification BulkSpec (single and bulk inserts).
BulkKey == 5
MaxBulk == 2
\* Bound of the one-tree specification DeepSpec (every key inserted once).
DeepKey == 7
\* Bound of the one-tree specification TallSpec (keys in ascending order).
AscKey == 50

Slots == {"a", "b"}
Regions == {1, 2, 3}
NULL == <<0, 0>>

VARIABLES heap, tree, origin, inserted, last, status

vars == <<heap, tree, origin, inserted, last, status>>

-----------------------------------------------------------------------------
(* Objects                                                                 *)

\* RB_Node{key, color}: links start out null.
NodeRec(key, color) ==
    [key |-> key, color |-> color, left |-> NULL, right |-> NULL, parent |-> NULL]

\* End_Node: only left_ is a real member; the other fields are never read.
EndRec ==
    [key |-> 0, color |-> "end", left |-> NULL, right |-> NULL, parent |-> NULL]

\* A slot that holds no RB_Tree object.
NoTree ==
    [alive |-> FALSE, nodes |-> <<>>, end_node |-> NULL,
     leftmost |-> NULL, rightmost |-> NULL, size |-> 0]

\* RB_Tree() = default with the default member initialisers: a fresh sentinel
\* at address e, leftmost_ = end_node(), rightmost_ = nullptr, size_ = 0.
DefaultTree(e) ==
    [alive |-> TRUE, nodes |-> <<>>, end_node |-> e,
     leftmost |-> e, rightmost |-> NULL, size |-> 0]

Range(s) == {s[i] : i \in 1..Len(s)}

\* The regions that hold no object: where make_unique places a new sentinel.
FreeRegions(h) == {r \in Regions : \A p \in DOMAIN h : p[1] # r}

FirstFree(h) == CHOOSE r \in FreeRegions(h) : \A q \in FreeRegions(h) : r <= q

size(t) == t.size

empty(t) == t.size = 0

begin(t) == t.leftmost

\* end() that hands out the leftmost cache.
end_is_leftmost(t) == t.leftmost

end(t) == t.end_node

end_node(t) == t.end_node

root(h, t) == h[t.end_node].left

-----------------------------------------------------------------------------
(* details.hpp: search primitives, rotations and the insertion fix-up      *)

RECURSIVE details_find(_, _, _)
details_find(h, node, key) ==
    IF node = NULL THEN NULL
    ELSE IF key < h[node].key THEN details_find(h, h[node].left, key)
    ELSE IF h[node].key < key THEN details_find(h, h[node].right, key)
    ELSE node

RECURSIVE find_v2_from(_, _, _, _)
find_v2_from(h, node, parent, key) ==
    IF node = NULL THEN [node |-> NULL, parent |-> parent]
    ELSE IF key < h[node].key THEN find_v2_from(h, h[node].left, node, key)
    ELSE IF h[node].key < key THEN find_v2_from(h, h[node].right, node, key)
    ELSE [node |-> node, parent |-> parent]

details_find_v2(h, rt, key) == find_v2_from(h, rt, NULL, key)

RECURSIVE lower_bound_from(_, _, _, _)
lower_bound_from(h, node, cand, key) ==
    IF node = NULL THEN cand
    ELSE IF h[node].key < key THEN lower_bound_from(h, h[node].right, cand, key)
    ELSE lower_bound_from(h, h[node].left, node, key)

details_lower_bound(h, rt, key) == lower_bound_from(h, rt, NULL, key)

RECURSIVE upper_bound_from(_, _, _, _)
upper_bound_from(h, node, cand, key) ==
    IF node = NULL THEN cand
    ELSE IF key < h[node].key THEN upper_bound_from(h, h[node].left, node, key)
    ELSE upper_bound_from(h, h[node].right, cand, key)

details_upper_bound(h, rt, key) == upper_bound_from(h, rt, NULL, key)

is_left_child(h, x) == x = h[h[x].parent].left

left_rotate(h, x) ==
    LET y  == h[x].right
        yl == h[y].left
        xp == h[x].parent
        h1 == [h EXCEPT ![x].right = yl]
        h2 == IF yl # NULL THEN [h1 EXCEPT ![yl].parent = x] ELSE h1
        h3 == [h2 EXCEPT ![y].parent = xp]
        h4 == IF is_left_child(h, x) THEN [h3 EXCEPT ![xp].left = y]
                                     ELSE [h3 EXCEPT ![xp].right = y]
    IN  [h4 EXCEPT ![y].left = x, ![x].parent = y]

right_rotate(h, x) ==
    LET y  == h[x].left
        yr == h[y].right
        xp == h[x].parent
        h1 == [h EXCEPT ![x].left = yr]
        h2 == IF yr # NULL THEN [h1 EXCEPT ![yr].parent = x] ELSE h1
        h3 == [h2 EXCEPT ![y].parent = xp]
        h4 == IF is_left_child(h, x) THEN [h3 EXCEPT ![xp].left = y]
                                     ELSE [h3 EXCEPT ![xp].right = y]
    IN  [h4 EXCEPT ![y].right = x, ![x].parent = y]

is_red(h, x) == x # NULL /\ h[x].color = "red"

\* The loop of the fix-up: e is the sentinel (the root's parent), z the cursor.
RECURSIVE fixup_loop(_, _, _)
fixup_loop(h, e, z) ==
    LET p == h[z].parent IN
    IF z = h[e].left \/ ~is_red(h, p) THEN h
    ELSE
      LET g == h[p].parent IN
      IF p = h[g].left THEN
        LET u == h[g].right IN
        IF is_red(h, u) THEN
          fixup_loop([h EXCEPT ![p].color = "black", ![u].color = "black",
                               ![g].color = "red"], e, g)
        ELSE
          LET inner == z = h[p].right
              h1 == IF inner THEN left_rotate(h, p) ELSE h
              z1 == IF inner THEN p ELSE z
              p1 == h1[z1].parent
              g1 == h1[p1].parent
              h2 == [h1 EXCEPT ![p1].color = "black", ![g1].color = "red"]
          IN  fixup_loop(right_rotate(h2, g1), e, z1)
      ELSE
        LET u == h[g].left IN
        IF is_red(h, u) THEN
          fixup_loop([h EXCEPT ![p].color = "black", ![u].color = "black",
                               ![g].color = "red"], e, g)
        ELSE
          LET inner == z = h[p].left
              h1 == IF inner THEN right_rotate(h, p) ELSE h
              z1 == IF inner THEN p ELSE z
              p1 == h1[z1].parent
              g1 == h1[p1].parent
              h2 == [h1 EXCEPT ![p1].color = "black", ![g1].color = "red"]
          IN  fixup_loop(left_rotate(h2, g1), e, z1)

\* The test of the loop: the cursor is not the root and its parent is red.
loop_goes_on(h, e, z) == z # h[e].left /\ is_red(h, h[z].parent)

\* One iteration of the loop of the fix-up at cursor z: the heap and the
\* cursor it leaves, with the parent, grandparent and uncle it worked on.
fixup_step(h, z) ==
    LET p    == h[z].parent
        g    == h[p].parent
        left == p = h[g].left
        u    == IF left THEN h[g].right ELSE h[g].left
    IN  IF is_red(h, u) THEN
          [h |-> [h EXCEPT ![p].color = "black", ![u].color = "black",
                           ![g].color = "red"],
           z |-> g, kind |-> "recolour", p |-> p, g |-> g, u |-> u]
        ELSE
          LET inner == IF left THEN z = h[p].right ELSE z = h[p].left
              h1 == IF ~inner THEN h
                    ELSE IF left THEN left_rotate(h, p) ELSE right_rotate(h, p)
              z1 == IF inner THEN p ELSE z
              p1 == h1[z1].parent
              g1 == h1[p1].parent
              h2 == [h1 EXCEPT ![p1].color = "black", ![g1].color = "red"]
          IN  [h |-> IF left THEN right_rotate(h2, g1) ELSE left_rotate(h2, g1),
               z |-> z1, kind |-> "rotate", p |-> p, g |-> g, u |-> u]

blacken_root(h, e) == [h EXCEPT ![h[e].left].color = "black"]

\* rb_insert_fixup (root, new_node): the loop, then the root is forced black.
rb_insert_fixup(h, rt, new_node) ==
    blacken_root(fixup_loop(h, h[rt].parent, new_node), h[rt].parent)

-----------------------------------------------------------------------------
(* tree_iterator.hpp: in-order stepping over parent/child links            *)

RECURSIVE tree_min(_, _)
tree_min(h, x) == IF h[x].left = NULL THEN x ELSE tree_min(h, h[x].left)

RECURSIVE tree_max(_, _)
tree_max(h, x) == IF h[x].right = NULL THEN x ELSE tree_max(h, h[x].right)

RECURSIVE climb_while_right(_, _)
climb_while_right(h, x) ==
    IF is_left_child(h, x) THEN h[x].parent ELSE climb_while_right(h, h[x].parent)

\* operator++ of tree_iterator.
increment(h, x) ==
    IF h[x].right # NULL THEN tree_min(h, h[x].right) ELSE climb_while_right(h, x)

RECURSIVE climb_while_left(_, _)
climb_while_left(h, x) ==
    IF is_left_child(h, x) THEN climb_while_left(h, h[x].parent) ELSE h[x].parent

\* operator-- of tree_iterator: on the sentinel the left subtree is the
\* whole tree, so the step from end() lands on the maximum.
decrement(h, x) ==
    IF h[x].left # NULL THEN tree_max(h, h[x].left) ELSE climb_while_left(h, x)

-----------------------------------------------------------------------------
(* rb_tree.hpp: private helpers                                            *)

\* insert_node: the node is created and pushed into the arena; its address
\* is the next place of the arena that belongs to this tree's sentinel.
insert_node(h, t, key, color) ==
    LET addr == <<t.end_node[1], Len(t.nodes) + 1>>
    IN  [h |-> h @@ (addr :> NodeRec(key, color)),
         t |-> [t EXCEPT !.nodes = Append(@, addr)],
         node |-> addr]

\* insert_root without size_++.
insert_root_no_count(h, t, key) ==
    LET a  == insert_node(h, t, key, "black")
        n  == a.node
        h1 == [a.h EXCEPT ![t.end_node].left = n]
        h2 == [h1 EXCEPT ![n].parent = t.end_node]
    IN  [h |-> h2,
         t |-> [a.t EXCEPT !.leftmost = n, !.rightmost = n],
         pos |-> n, flag |-> TRUE, ub |-> FALSE]

\* insert_root that colours the root red.
insert_root_red(h, t, key) ==
    LET a  == insert_node(h, t, key, "red")
        n  == a.node
        h1 == [a.h EXCEPT ![t.end_node].left = n]
        h2 == [h1 EXCEPT ![n].parent = t.end_node]
    IN  [h |-> h2,
         t |-> [a.t EXCEPT !.leftmost = n, !.rightmost = n, !.size = @ + 1],
         pos |-> n, flag |-> TRUE, ub |-> FALSE]

\* insert_root without root()->parent_ = end_node() (line 246).
insert_root_no_parent(h, t, key) ==
    LET a  == insert_node(h, t, key, "black")
        n  == a.node
        h1 == [a.h EXCEPT ![t.end_node].left = n]
    IN  [h |-> h1,
         t |-> [a.t EXCEPT !.leftmost = n, !.rightmost = n, !.size = @ + 1],
         pos |-> n, flag |-> TRUE, ub |-> FALSE]

insert_root(h, t, key) ==
    LET a  == insert_node(h, t, key, "black")
        n  == a.node
        h1 == [a.h EXCEPT ![t.end_node].left = n]
        h2 == [h1 EXCEPT ![n].parent = t.end_node]
    IN  [h |-> h2,
         t |-> [a.t EXCEPT !.leftmost = n, !.rightmost = n, !.size = @ + 1],
         pos |-> n, flag |-> TRUE, ub |-> FALSE]

\* Lines 257 to 262 of insert_hint_unique with the comparison turned around.
link_child_wrong_side(h, parent, n, key) ==
    LET h1 == [h EXCEPT ![n].parent = parent]
    IN  IF h1[parent].key < key THEN [h1 EXCEPT ![parent].left = n]
                                ELSE [h1 EXCEPT ![parent].right = n]

\* Lines 257 to 262 of insert_hint_unique: the new node gets its parent and
\* becomes the left or the right child of it.
link_child(h, parent, n, key) ==
    LET h1 == [h EXCEPT ![n].parent = parent]
    IN  IF key < h1[parent].key THEN [h1 EXCEPT ![parent].left = n]
                                ELSE [h1 EXCEPT ![parent].right = n]

\* Line 264 of insert_hint_unique with the root blackened and nothing else.
rebalance_root_only(h, t, n) == blacken_root(h, t.end_node)

\* Line 264 of insert_hint_unique without the call of rb_insert_fixup.
rebalance_skipped(h, t, n) == h

\* Line 264 of insert_hint_unique: details::rb_insert_fixup (root(), new_node).
rebalance(h, t, n) == rb_insert_fixup(h, root(h, t), n)

\* Lines 266 to 273 of insert_hint_unique with the second test made on
\* rightmost_->left_.
update_caches_tests_left(h, t, at, n, junk) ==
    LET isLeft  == n = h[t.leftmost].left
        nullRd  == ~isLeft /\ t.rightmost = NULL
        isRight == IF nullRd THEN junk ELSE n = h[t.rightmost].left
        t1 == IF isLeft THEN [at EXCEPT !.leftmost = n]
              ELSE IF isRight THEN [at EXCEPT !.rightmost = n]
              ELSE at
    IN  [h |-> h, t |-> [t1 EXCEPT !.size = @ + 1],
         pos |-> n, flag |-> TRUE, ub |-> nullRd]

\* Lines 266 to 273 of insert_hint_unique: the caches, the size and the
\* result.  at is the tree after insert_node, t the tree before it.  When
\* leftmost_->left_ is not the new node the code reads rightmost_->right_;
\* with rightmost_ == nullptr that read is undefined: ub is set, and junk is
\* the truth value the comparison takes if the build does not trap.
update_caches(h, t, at, n, junk) ==
    LET isLeft  == n = h[t.leftmost].left
        nullRd  == ~isLeft /\ t.rightmost = NULL
        isRight == IF nullRd THEN junk ELSE n = h[t.rightmost].right
        t1 == IF isLeft THEN [at EXCEPT !.leftmost = n]
              ELSE IF isRight THEN [at EXCEPT !.rightmost = n]
              ELSE at
    IN  [h |-> h, t |-> [t1 EXCEPT !.size = @ + 1],
         pos |-> n, flag |-> TRUE, ub |-> nullRd]

\* insert_hint_unique that creates the leaf black (line 256).
insert_hint_unique_black_leaf(h, t, parent, key, junk) ==
    LET a == insert_node(h, t, key, "black")
    IN  update_caches(rebalance(link_child(a.h, parent, a.node, key), t, a.node),
                      t, a.t, a.node, junk)

insert_hint_unique(h, t, parent, key, junk) ==
    LET a == insert_node(h, t, key, "red")
    IN  update_caches(rebalance(link_child(a.h, parent, a.node, key), t, a.node),
                      t, a.t, a.node, junk)

-----------------------------------------------------------------------------
(* rb_tree.hpp: public operations as functions of the heap and the tree    *)

\* insert that reports inserted = true for a key it found.
insert_always_true(h, t, key, junk) ==
    IF empty(t) THEN insert_root(h, t, key)
    ELSE
      LET f == details_find_v2(h, root(h, t), key) IN
      IF f.node = NULL THEN insert_hint_unique(h, t, f.parent, key, junk)
      ELSE [h |-> h, t |-> t, pos |-> f.node, flag |-> TRUE, ub |-> FALSE]

\* std::pair<iterator, bool> insert (const key_type &key)
insert(h, t, key, junk) ==
    IF empty(t) THEN insert_root(h, t, key)
    ELSE
      LET f == details_find_v2(h, root(h, t), key) IN
      IF f.node = NULL THEN insert_hint_unique(h, t, f.parent, key, junk)
      ELSE [h |-> h, t |-> t, pos |-> f.node, flag |-> FALSE, ub |-> FALSE]

\* insert_unique that counts a key it found.
insert_unique_counts_found(h, t, key, junk) ==
    IF empty(t) THEN insert_root(h, t, key)
    ELSE
      LET f == details_find_v2(h, root(h, t), key) IN
      IF f.node = NULL THEN insert_hint_unique(h, t, f.parent, key, junk)
      ELSE [h |-> h, t |-> [t EXCEPT !.size = @ + 1],
            pos |-> NULL, flag |-> FALSE, ub |-> FALSE]

\* void insert_unique (const key_type &key)
insert_unique(h, t, key, junk) ==
    IF empty(t) THEN insert_root(h, t, key)
    ELSE
      LET f == details_find_v2(h, root(h, t), key) IN
      IF f.node = NULL THEN insert_hint_unique(h, t, f.parent, key, junk)
      ELSE [h |-> h, t |-> t, pos |-> NULL, flag |-> FALSE, ub |-> FALSE]

\* The two places of insert_node that allocate: new node_type (line 235)
\* and nodes_.push_back (line 236).
AllocSteps == {"new", "push_back"}

\* insert_node whose failed push_back leaves the node behind.
insert_node_failing_leaks(h, t, key, color, at) ==
    IF at = "new" THEN [h |-> h, t |-> t]
    ELSE [h |-> h @@ (<<t.end_node[1], Len(t.nodes) + 1>> :> NodeRec(key, color)),
          t |-> t]

\* insert_node when the allocation at step at throws.  A throwing new has
\* created nothing.  When push_back throws, the node exists and is owned by
\* the local unique_ptr: the vector is left as it was and unwinding
\* destroys the node.
insert_node_failing(h, t, key, color, at) ==
    IF at = "new" THEN [h |-> h, t |-> t]
    ELSE LET addr == <<t.end_node[1], Len(t.nodes) + 1>>
             h1   == h @@ (addr :> NodeRec(key, color))
         IN  [h |-> [p \in DOMAIN h1 \ {addr} |-> h1[p]], t |-> t]

\* insert_root left by the exception at line 243: lines 245 to 249 do not run.
insert_root_failing(h, t, key, at) == insert_node_failing(h, t, key, "black", at)

\* insert_hint_unique left by the exception at line 256.
insert_hint_unique_failing(h, t, parent, key, at) ==
    insert_node_failing(h, t, key, "red", at)

\* insert (key) when the allocation of the node throws; thrown tells whether
\* the call got as far as allocating (a stored key allocates nothing).
insert_failing(h, t, key, at) ==
    IF empty(t) THEN
      LET r == insert_root_failing(h, t, key, at)
      IN  [h |-> r.h, t |-> r.t, thrown |-> TRUE]
    ELSE
      LET f == details_find_v2(h, root(h, t), key) IN
      IF f.node = NULL THEN
        LET r == insert_hint_unique_failing(h, t, f.parent, key, at)
        IN  [h |-> r.h, t |-> r.t, thrown |-> TRUE]
      ELSE [h |-> h, t |-> t, thrown |-> FALSE]

\* insert (first, last) and insert (initializer_list): insert_unique on each
\* element in order.  ub tells whether one of the calls made so far met the
\* undefined read.
RECURSIVE insert_range_from(_, _, _, _, _)
insert_range_from(h, t, ks, junk, ub) ==
    IF ks = <<>> THEN [h |-> h, t |-> t, pos |-> NULL, flag |-> FALSE, ub |-> ub]
    ELSE CHOOSE res \in {insert_range_from(r.h, r.t, Tail(ks), junk, ub \/ r.ub) :
                            r \in {insert_unique(h, t, Head(ks), junk)}} : TRUE

insert_range(h, t, ks, junk) == insert_range_from(h, t, ks, junk, FALSE)

\* find without the replacement of "absent" by end().
find_raw(h, t, key) == details_find(h, root(h, t), key)

find(h, t, key) ==
    LET node == details_find(h, root(h, t), key)
    IN  IF node # NULL THEN node ELSE end(t)

lower_bound(h, t, key) ==
    LET node == details_lower_bound(h, root(h, t), key)
    IN  IF node # NULL THEN node ELSE end(t)

\* upper_bound that calls details::lower_bound.
upper_bound_as_lower(h, t, key) ==
    LET node == details_lower_bound(h, root(h, t), key)
    IN  IF node # NULL THEN node ELSE end(t)

upper_bound(h, t, key) ==
    LET node == details_upper_bound(h, root(h, t), key)
    IN  IF node # NULL THEN node ELSE end(t)

contains(h, t, key) == find(h, t, key) # end(t)

\* The paired walk of the copy constructor.  fuel bounds the iterations of
\* the while loop; done = FALSE reports that the bound was exhausted.
RECURSIVE copy_loop(_, _, _, _, _, _)
copy_loop(h, t, rhs, rhs_node, node, fuel) ==
    IF rhs_node = rhs.end_node THEN [h |-> h, t |-> t, done |-> TRUE]
    ELSE IF fuel = 0 THEN [h |-> h, t |-> t, done |-> FALSE]
    ELSE IF h[rhs_node].left # NULL /\ h[node].left = NULL THEN
      LET rn == h[rhs_node].left
          a  == insert_node(h, t, h[rn].key, h[rn].color)
          h1 == [a.h EXCEPT ![node].left = a.node]
          h2 == [h1 EXCEPT ![a.node].parent = node]
          t1 == IF rn = rhs.leftmost THEN [a.t EXCEPT !.leftmost = a.node] ELSE a.t
      IN  copy_loop(h2, t1, rhs, rn, a.node, fuel - 1)
    ELSE IF h[rhs_node].right # NULL /\ h[node].right = NULL THEN
      LET rn == h[rhs_node].right
          a  == insert_node(h, t, h[rn].key, h[rn].color)
          h1 == [a.h EXCEPT ![node].right = a.node]
          h2 == [h1 EXCEPT ![a.node].parent = node]
          t1 == IF rn = rhs.rightmost THEN [a.t EXCEPT !.rightmost = a.node] ELSE a.t
      IN  copy_loop(h2, t1, rhs, rn, a.node, fuel - 1)
    ELSE copy_loop(h, t, rhs, h[rhs_node].parent, h[node].parent, fuel - 1)

\* The copy constructor without root()->parent_ = end_node() (line 68).
copy_ctor_no_root_parent(h, e, rhs) ==
    LET h0 == h @@ (e :> EndRec)
        t0 == [DefaultTree(e) EXCEPT !.size = rhs.size]
    IN  IF root(h, rhs) # NULL THEN
          LET rn == root(h, rhs)
              a  == insert_node(h0, t0, h[rn].key, h[rn].color)
              h1 == [a.h EXCEPT ![e].left = a.node]
          IN  copy_loop(h1, a.t, rhs, rn, a.node, 2 * Len(rhs.nodes))
        ELSE [h |-> h0, t |-> t0, done |-> TRUE]

\* RB_Tree (const self &rhs): the new object gets its own sentinel at e.
copy_ctor(h, e, rhs) ==
    LET h0 == h @@ (e :> EndRec)
        t0 == [DefaultTree(e) EXCEPT !.size = rhs.size]
    IN  IF root(h, rhs) # NULL THEN
          LET rn == root(h, rhs)
              a  == insert_node(h0, t0, h[rn].key, h[rn].color)
              h1 == [a.h EXCEPT ![e].left = a.node]
              h2 == [h1 EXCEPT ![a.node].parent = e]
          IN  copy_loop(h2, a.t, rhs, rn, a.node, 2 * Len(rhs.nodes))
        ELSE [h |-> h0, t |-> t0, done |-> TRUE]

\* The move constructor with size_{rhs.size_} in place of std::exchange.
move_ctor_keeps_size(rhs) ==
    [dst |-> [alive |-> TRUE, nodes |-> rhs.nodes, end_node |-> rhs.end_node,
              leftmost |-> rhs.leftmost, rightmost |-> rhs.rightmost,
              size |-> rhs.size],
     src |-> [rhs EXCEPT !.nodes = <<>>, !.end_node = NULL, !.leftmost = NULL,
                         !.rightmost = NULL]]

\* RB_Tree (self &&rhs): members are initialised in declaration order, so
\* rhs.end_node_ is already null when rhs.end_node() is evaluated for
\* std::exchange (rhs.leftmost_, rhs.end_node()).  The initialiser names
\* rhs.node_; the arena member is nodes_.
move_ctor(rhs) ==
    [dst |-> [alive |-> TRUE, nodes |-> rhs.nodes, end_node |-> rhs.end_node,
              leftmost |-> rhs.leftmost, rightmost |-> rhs.rightmost,
              size |-> rhs.size],
     src |-> [rhs EXCEPT !.nodes = <<>>, !.end_node = NULL, !.leftmost = NULL,
                         !.rightmost = NULL, !.size = 0]]

\* self &operator= (self &&rhs): five member-wise swaps.
move_assign(lhs, rhs) ==
    [lhs |-> [lhs EXCEPT !.nodes = rhs.nodes, !.end_node = rhs.end_node,
                         !.leftmost = rhs.leftmost, !.rightmost = rhs.rightmost,
                         !.size = rhs.size],
     rhs |-> [rhs EXCEPT !.nodes = lhs.nodes, !.end_node = lhs.end_node,
                         !.leftmost = lhs.leftmost, !.rightmost = lhs.rightmost,
                         !.size = lhs.size]]

\* std::swap (x, y): self tmp (std::move (x)); x = std::move (y); y = std::move (tmp);
std_swap(x, y) ==
    LET m  == move_ctor(x)
        s1 == move_assign(m.src, y)
        s2 == move_assign(s1.rhs, m.dst)
    IN  [x |-> s1.lhs, y |-> s2.lhs, tmp |-> s2.rhs]

\* ~RB_Tree (): the arena and the sentinel are released.
Release(h, t) ==
    LET gone == Range(t.nodes) \cup {t.end_node}
    IN  [p \in DOMAIN h \ gone |-> h[p]]

-----------------------------------------------------------------------------
(* The state machine                                                       *)
(*                                                                         *)
(* heap, tree: the objects.  Ghost state: origin[t] tells how the contents *)
(* of slot t came to be (default construction and inserts, a copy, or the  *)
(* shell left by a move construction), inserted[t] is the set of keys      *)
(* handed to insert for these contents, last names the last operation and  *)
(* status tells whether the process is still running.                      *)

\* The sequences a bulk insert may be handed.
BulkInputs == UNION {[1..n -> 1..BulkKey] : n \in 0..MaxBulk}

\* What a build can do at an undefined read: trap, or go on with the
\* comparison taking either truth value.
Outcomes == {"trap", "true", "false"}

\* The outcomes of one execution: a single one unless it meets an undefined read.
OutcomesOf(undefined) == IF undefined THEN Outcomes ELSE {"false"}

\* Addresses are only compared for equality, so an execution is the same
\* whatever regions the allocator hands out.  Every operation that creates,
\* releases or hands over a sentinel ends by renaming the regions so that
\* the sentinel owned by slot "a" lies in region 1 and that of "b" in 2.
HomeOf(t) == IF t = "a" THEN 1 ELSE 2

\* The permutation of the regions that sends every owned sentinel home and
\* the other regions, in their order, to the places left.
Renaming(tr) ==
    LET owned == {t \in Slots : tr[t].end_node # NULL}
        from  == Regions \ {tr[t].end_node[1] : t \in owned}
        to    == Regions \ {HomeOf(t) : t \in owned}
    IN  [r \in Regions |->
            IF r \in from
            THEN CHOOSE y \in to :
                    Cardinality({x \in to : x < y}) = Cardinality({x \in from : x < r})
            ELSE HomeOf(CHOOSE t \in owned : tr[t].end_node[1] = r)]

Rn(f, p) == IF p = NULL THEN NULL ELSE <<f[p[1]], p[2]>>

Inverse(f) == [y \in Regions |-> CHOOSE x \in Regions : f[x] = y]

RenameHeap(f, h) ==
    LET g == Inverse(f) IN
    [q \in {Rn(f, p) : p \in DOMAIN h} |->
        [h[<<g[q[1]], q[2]>>] EXCEPT !.left = Rn(f, @), !.right = Rn(f, @),
                                      !.parent = Rn(f, @)]]

RenameTree(f, t) ==
    [t EXCEPT !.nodes = IF @ = <<>> THEN <<>> ELSE [i \in 1..Len(@) |-> Rn(f, @[i])],
              !.end_node = Rn(f, @),
              !.leftmost = Rn(f, @),
              !.rightmost = Rn(f, @)]

\* The objects after an operation that left the heap h and the trees tr.
Settle(h, tr) ==
    IF \A t \in Slots : tr[t].end_node # NULL => tr[t].end_node[1] = HomeOf(t)
    THEN /\ heap' = h
         /\ tree' = tr
    ELSE LET f == Renaming(tr)
         IN  /\ heap' = RenameHeap(f, h)
             /\ tree' = [t \in Slots |-> RenameTree(f, tr[t])]

\* The process is killed: no object changes any more.
Crash(op) ==
    /\ status' = "crashed"
    /\ last' = op
    /\ UNCHANGED <<heap, tree, origin, inserted>>

Init ==
    /\ heap = (<<1, 0>> :> EndRec)
    /\ tree = [t \in Slots |-> IF t = "a" THEN DefaultTree(<<1, 0>>) ELSE NoTree]
    /\ origin = [t \in Slots |-> IF t = "a" THEN "default" ELSE "none"]
    /\ inserted = [t \in Slots |-> {}]
    /\ last = "none"
    /\ status = "ok"

\* RB_Tree () = default
Construct(t) ==
    /\ status = "ok"
    /\ ~tree[t].alive
    /\ LET e == <<FirstFree(heap), 0>> IN
         Settle(heap @@ (e :> EndRec), [tree EXCEPT ![t] = DefaultTree(e)])
    /\ origin' = [origin EXCEPT ![t] = "default"]
    /\ inserted' = [inserted EXCEPT ![t] = {}]
    /\ last' = "construct"
    /\ status' = status

\* ~RB_Tree () = default
Destroy(t) ==
    /\ status = "ok"
    /\ tree[t].alive
    /\ Settle(Release(heap, tree[t]), [tree EXCEPT ![t] = NoTree])
    /\ origin' = [origin EXCEPT ![t] = "none"]
    /\ inserted' = [inserted EXCEPT ![t] = {}]
    /\ last' = "destroy"
    /\ status' = status

\* Does insert (k) on t meet the undefined read of rightmost_->right_ ?
InsertUB(h, t, k) == t.end_node # NULL /\ insert(h, t, k, FALSE).ub

\* insert (key).  On a tree whose sentinel pointer is null (a moved-from
\* object) empty() holds and insert_root stores through end_node()->left_:
\* the store through the null pointer traps.
Insert(t, k) ==
    /\ status = "ok"
    /\ tree[t].alive
    /\ \E out \in OutcomesOf(InsertUB(heap, tree[t], k)) :
         \E r \in {insert(heap, tree[t], k, out = "true")} :
         IF tree[t].end_node = NULL \/ (r.ub /\ out = "trap")
         THEN Crash("insert")
         ELSE /\ heap' = r.h
              /\ tree' = [tree EXCEPT ![t] = r.t]
              /\ inserted' = [inserted EXCEPT ![t] = @ \cup {k}]
              /\ last' = "insert"
              /\ UNCHANGED <<origin, status>>

RangeUB(h, t, ks) == t.end_node # NULL /\ insert_range(h, t, ks, FALSE).ub

\* insert (first, last) / insert (initializer_list)
InsertRange(t, ks) ==
    /\ status = "ok"
    /\ tree[t].alive
    /\ \E out \in OutcomesOf(RangeUB(heap, tree[t], ks)) :
         \E r \in {insert_range(heap, tree[t], ks, out = "true")} :
         IF (ks # <<>> /\ tree[t].end_node = NULL) \/ (r.ub /\ out = "trap")
         THEN Crash("insert_range")
         ELSE /\ heap' = r.h
              /\ tree' = [tree EXCEPT ![t] = r.t]
              /\ inserted' = [inserted EXCEPT ![t] = @ \cup Range(ks)]
              /\ last' = "insert_range"
              /\ UNCHANGED <<origin, status>>

\* insert (key) that runs out of memory at step at: std::bad_alloc reaches
\* the caller, who goes on with the tree as the call left it.
InsertBadAlloc(t, k, at) ==
    /\ status = "ok"
    /\ tree[t].alive
    /\ \E r \in {insert_failing(heap, tree[t], k, at)} :
         /\ r.thrown
         /\ heap' = r.h
         /\ tree' = [tree EXCEPT ![t] = r.t]
    /\ last' = "insert_bad_alloc"
    /\ UNCHANGED <<origin, inserted, status>>

\* The object self tmp {rhs} builds with its sentinel at e.  rhs.root() on a
\* source without sentinel reads through a null pointer; if the build does
\* not trap there the read yields null and the copy is the empty tree.
CopyOf(h, e, rhs) ==
    IF rhs.end_node = NULL
    THEN [h |-> h @@ (e :> EndRec), t |-> DefaultTree(e), done |-> TRUE]
    ELSE copy_ctor(h, e, rhs)

\* self dst {src};
CopyConstruct(dst, src) ==
    /\ status = "ok"
    /\ dst # src
    /\ ~tree[dst].alive
    /\ tree[src].alive
    /\ \E out \in OutcomesOf(tree[src].end_node = NULL) :
         LET c == CopyOf(heap, <<FirstFree(heap), 0>>, tree[src]) IN
         IF tree[src].end_node = NULL /\ out = "trap"
         THEN Crash("copy_ctor")
         ELSE /\ Settle(c.h, [tree EXCEPT ![dst] = c.t])
              /\ origin' = [origin EXCEPT ![dst] = "copy"]
              /\ inserted' = [inserted EXCEPT ![dst] = inserted[src]]
              /\ last' = "copy_ctor"
              /\ status' = status

\* operator= (const self &) without the std::swap: the copy is dropped.
copy_assign_no_swap(h, e, lhs, rhs) ==
    LET c == CopyOf(h, e, rhs)
    IN  [h |-> Release(c.h, c.t), t |-> lhs, done |-> c.done]

\* operator= (const self &rhs): auto tmp_tree{rhs}; std::swap (*this, tmp_tree);
\* then tmp_tree, holding the previous contents of *this, is destroyed.
copy_assign(h, e, lhs, rhs) ==
    LET c == CopyOf(h, e, rhs)
        w == std_swap(lhs, c.t)
    IN  [h |-> Release(Release(c.h, w.tmp), w.y), t |-> w.x, done |-> c.done]

\* dst = src;
CopyAssign(dst, src) ==
    /\ status = "ok"
    /\ dst # src
    /\ tree[dst].alive
    /\ tree[src].alive
    /\ \E out \in OutcomesOf(tree[src].end_node = NULL) :
         LET c == copy_assign(heap, <<FirstFree(heap), 0>>, tree[dst], tree[src]) IN
         IF tree[src].end_node = NULL /\ out = "trap"
         THEN Crash("copy_assign")
         ELSE /\ Settle(c.h, [tree EXCEPT ![dst] = c.t])
              /\ origin' = [origin EXCEPT ![dst] = "copy"]
              /\ inserted' = [inserted EXCEPT ![dst] = inserted[src]]
              /\ last' = "copy_assign"
              /\ status' = status

\* self dst {std::move (src)};
MoveConstruct(dst, src) ==
    /\ status = "ok"
    /\ dst # src
    /\ ~tree[dst].alive
    /\ tree[src].alive
    /\ LET m == move_ctor(tree[src]) IN
         Settle(heap, [tree EXCEPT ![dst] = m.dst, ![src] = m.src])
    /\ origin' = [origin EXCEPT ![dst] = origin[src], ![src] = "moved_from"]
    /\ inserted' = [inserted EXCEPT ![dst] = inserted[src], ![src] = {}]
    /\ last' = "move_ctor"
    /\ status' = status

\* dst = std::move (src);
MoveAssign(dst, src) ==
    /\ status = "ok"
    /\ dst # src
    /\ tree[dst].alive
    /\ tree[src].alive
    /\ LET m == move_assign(tree[dst], tree[src]) IN
         Settle(heap, [tree EXCEPT ![dst] = m.lhs, ![src] = m.rhs])
    /\ origin' = [origin EXCEPT ![dst] = origin[src], ![src] = origin[dst]]
    /\ inserted' = [inserted EXCEPT ![dst] = inserted[src], ![src] = inserted[dst]]
    /\ last' = "move_assign"
    /\ status' = status

\* t.swap (u): std::swap (*this, other); the temporary ends up holding the
\* moved-from shell and is destroyed.
Swap(t, u) ==
    /\ status = "ok"
    /\ t # u
    /\ tree[t].alive
    /\ tree[u].alive
    /\ LET w == std_swap(tree[t], tree[u]) IN
         Settle(Release(heap, w.tmp), [tree EXCEPT ![t] = w.x, ![u] = w.y])
    /\ origin' = [origin EXCEPT ![t] = origin[u], ![u] = origin[t]]
    /\ inserted' = [inserted EXCEPT ![t] = inserted[u], ![u] = inserted[t]]
    /\ last' = "swap"
    /\ status' = status

\* insert (k) with a key the tree does not store yet (any key on a tree
\* without sentinel, where the call traps before it compares keys).
InsertNew(t, k) ==
    /\ tree[t].end_node # NULL => ~contains(heap, tree[t], k)
    /\ Insert(t, k)

\* Two objects under construction, destruction, inserts of new keys, copies,
\* moves and swaps.
Next ==
    \/ \E t \in Slots : Construct(t)
    \/ \E t \in Slots : Destroy(t)
    \/ \E t \in Slots, k \in 1..MaxKey : InsertNew(t, k)
    \/ \E d \in Slots, s \in Slots : CopyConstruct(d, s)
    \/ \E d \in Slots, s \in Slots : CopyAssign(d, s)
    \/ \E d \in Slots, s \in Slots : MoveConstruct(d, s)
    \/ \E d \in Slots, s \in Slots : MoveAssign(d, s)
    \/ \E t \in Slots, u \in Slots : Swap(t, u)

Spec == Init /\ [][Next]_vars

\* One default-constructed tree under single and bulk inserts, repeated keys
\* included, and inserts that run out of memory.
BulkNext ==
    \/ \E k \in 1..BulkKey : Insert("a", k)
    \/ \E ks \in BulkInputs : InsertRange("a", ks)
    \/ \E k \in 1..BulkKey, at \in AllocSteps : InsertBadAlloc("a", k, at)

BulkSpec == Init /\ [][BulkNext]_vars

\* One default-constructed tree, a wider key range, every key inserted once:
\* every insertion order is explored, so the fix-up meets recolouring up to
\* the root and the single and double rotations on both sides.
DeepNext == \E k \in 1..DeepKey : InsertNew("a", k)

DeepSpec == Init /\ [][DeepNext]_vars

\* for (k = 1; k <= AscKey; ++k) tree.insert (k): the next key of an
\* ascending run, once the run is longer than the trees of DeepSpec.
AscendingInsert(t) ==
    /\ DeepKey <= size(tree[t])
    /\ size(tree[t]) < AscKey
    /\ \A i \in 1..Len(tree[t].nodes) : heap[tree[t].nodes[i]].key = i
    /\ InsertNew(t, size(tree[t]) + 1)

\* One default-constructed tree: up to DeepKey keys in any order, and the
\* ascending run 1, 2, 3, ... continued up to AscKey keys.
TallNext ==
    \/ \E k \in 1..DeepKey : InsertNew("a", k)
    \/ AscendingInsert("a")

TallSpec == Init /\ [][TallNext]_vars

-----------------------------------------------------------------------------
(* Vocabulary of the properties                                            *)

\* The nodes of the subtree rooted at x.
RECURSIVE Subtree(_, _)
Subtree(h, x) ==
    IF x = NULL THEN {}
    ELSE {x} \cup Subtree(h, h[x].left) \cup Subtree(h, h[x].right)

KeysOf(h, x) == {h[n].key : n \in Subtree(h, x)}

\* The keys the tree holds; a tree without sentinel holds none.
TreeKeys(h, t) == IF t.end_node = NULL THEN {} ELSE KeysOf(h, root(h, t))

\* Invariant 1: every key on the left is smaller, every key on the right greater.
BSTOrder(h, rt) ==
    \A n \in Subtree(h, rt) :
        /\ \A k \in KeysOf(h, h[n].left) : k < h[n].key
        /\ \A k \in KeysOf(h, h[n].right) : h[n].key < k

\* The keys visited from pos up to stop with operator++; a walk that has not
\* reached stop after fuel steps is cut off with the mark 0 (no key is 0).
RECURSIVE WalkFrom(_, _, _, _)
WalkFrom(h, pos, stop, fuel) ==
    IF pos = stop THEN <<>>
    ELSE IF fuel = 0 THEN <<0>>
    ELSE <<h[pos].key>> \o WalkFrom(h, increment(h, pos), stop, fuel - 1)

\* for (it = begin(); it != end(); ++it)
Walk(h, t) == WalkFrom(h, begin(t), end(t), Len(t.nodes))

Ascending(w) == \A i \in 1..(Len(w) - 1) : w[i] < w[i + 1]

\* The number of black nodes on every path from x down to an absent child,
\* or -1 when two such paths differ.
RECURSIVE BlackHeight(_, _)
BlackHeight(h, x) ==
    IF x = NULL THEN 0
    ELSE LET l == BlackHeight(h, h[x].left)
             r == BlackHeight(h, h[x].right)
         IN  IF l < 0 \/ r < 0 \/ l # r THEN -1
             ELSE l + (IF h[x].color = "black" THEN 1 ELSE 0)

NoRedRed(h, rt) ==
    \A n \in Subtree(h, rt) :
        h[n].color = "red" =>
            /\ ~is_red(h, h[n].left)
            /\ ~is_red(h, h[n].right)

\* The node that stores key k (NULL if there is none).
NodeOfKey(h, rt, k) ==
    IF k \in KeysOf(h, rt) THEN CHOOSE n \in Subtree(h, rt) : h[n].key = k ELSE NULL

SetMin(S) == CHOOSE x \in S : \A y \in S : x <= y

SetMax(S) == CHOOSE x \in S : \A y \in S : y <= x

-----------------------------------------------------------------------------
(* Properties of a default-constructed tree under inserts                  *)

\* C1: after any sequence of inserts into a default-constructed tree, the
\* walk from begin() to end() visits strictly ascending keys, the visited
\* keys are exactly the keys handed to insert, and every node has only
\* smaller keys in its left and only greater keys in its right subtree.
C1_InOrderAscending ==
    LET t == tree["a"]
        w == Walk(heap, t)
    IN  /\ Ascending(w)
        /\ Range(w) = inserted["a"]
        /\ Len(w) = Cardinality(inserted["a"])
        /\ BSTOrder(heap, root(heap, t))

\* A full tree whose first key was the largest: the root was rotated away.
C1_Witness ==
    /\ last = "insert"
    /\ Len(tree["a"].nodes) = DeepKey
    /\ heap[tree["a"].nodes[1]].key = DeepKey
    /\ root(heap, tree["a"]) # tree["a"].nodes[1]
    /\ Len(Walk(heap, tree["a"])) = DeepKey

\* C2: after every completed insert the root is black, no red node has a
\* red child and all paths from a node down to an absent child cross the
\* same number of black nodes.
C2_RedBlack ==
    LET rt == root(heap, tree["a"])
    IN  /\ rt # NULL => heap[rt].color = "black"
        /\ NoRedRed(heap, rt)
        /\ BlackHeight(heap, rt) >= 0

\* A full tree of black height two with red nodes below a red-free top,
\* whose root is not the node inserted first.
C2_Witness ==
    LET rt == root(heap, tree["a"])
    IN  /\ last = "insert"
        /\ Len(tree["a"].nodes) = DeepKey
        /\ BlackHeight(heap, rt) = 2
        /\ \E n \in Subtree(heap, rt) : heap[n].color = "red" /\ heap[n].parent # rt
        /\ rt # tree["a"].nodes[1]

\* C3: insert of a stored key returns the position of the existing node with
\* inserted = false and changes neither the heap nor any member of the tree;
\* insert of a key that is not stored returns the position of a new node
\* that stores the key, with inserted = true.
C3_DuplicateInsert ==
    LET t  == tree["a"]
        rt == root(heap, t)
    IN  \A k \in 1..BulkKey :
          LET r == insert(heap, t, k, FALSE) IN
          IF k \in KeysOf(heap, rt)
          THEN /\ r.flag = FALSE
               /\ r.pos = NodeOfKey(heap, rt, k)
               /\ r.h = heap
               /\ r.t = t
               /\ ~r.ub
          ELSE /\ r.flag = TRUE
               /\ r.pos \notin DOMAIN heap
               /\ r.pos \in DOMAIN r.h
               /\ r.h[r.pos].key = k
               /\ r.pos \in Subtree(r.h, root(r.h, r.t))
               /\ ~r.ub

\* A stored key was handed to insert again: three keys are stored and the
\* last operation left the set of inserted keys as large as the tree.
C3_Witness ==
    /\ last = "insert"
    /\ tree["a"].size = 3
    /\ Cardinality(inserted["a"]) = 3
    /\ insert(heap, tree["a"], 2, FALSE).flag = FALSE
    /\ insert(heap, tree["a"], 4, FALSE).flag = TRUE

\* C4: under single and bulk inserts size() is the number of distinct keys
\* inserted so far, and empty() holds exactly when that number is zero.
C4_SizeCountsDistinct ==
    /\ size(tree["a"]) = Cardinality(inserted["a"])
    /\ empty(tree["a"]) <=> inserted["a"] = {}
    /\ Len(tree["a"].nodes) = Cardinality(inserted["a"])

\* A bulk insert left every key stored.
C4_Witness ==
    /\ last = "insert_range"
    /\ size(tree["a"]) = BulkKey
    /\ inserted["a"] = 1..BulkKey

\* C5: find (k) is the node that stores k if k was inserted and end()
\* otherwise, the empty tree included; contains (k) holds exactly when
\* find (k) is not end().
C5_FindContains ==
    LET t  == tree["a"]
        rt == root(heap, t)
    IN  \A k \in 0..(DeepKey + 1) :
          /\ k \in inserted["a"] =>
                /\ find(heap, t, k) \in Subtree(heap, rt)
                /\ heap[find(heap, t, k)].key = k
          /\ k \notin inserted["a"] => find(heap, t, k) = end(t)
          /\ contains(heap, t, k) <=> find(heap, t, k) # end(t)
          /\ contains(heap, t, k) <=> k \in inserted["a"]

\* Some keys are stored and some are not, in a tree of depth three or more.
C5_Witness ==
    LET t == tree["a"] IN
    /\ last = "insert"
    /\ Cardinality(inserted["a"]) = DeepKey - 2
    /\ contains(heap, t, 1)
    /\ ~contains(heap, t, 2)
    /\ contains(heap, t, DeepKey)
    /\ find(heap, t, DeepKey) # root(heap, t)
    /\ heap[find(heap, t, DeepKey)].parent # root(heap, t)

\* The position of the smallest key of S, end() when S is empty.
PosOfMin(h, t, S) == IF S = {} THEN end(t) ELSE NodeOfKey(h, root(h, t), SetMin(S))

\* C6: lower_bound (k) is the position of the smallest stored key not less
\* than k, upper_bound (k) that of the smallest stored key greater than k,
\* end() when there is none; for a stored k, lower_bound (k) is the position
\* of k and upper_bound (k) is its in-order successor.
C6_Bounds ==
    LET t == tree["a"]
        S == inserted["a"]
    IN  \A k \in 0..(DeepKey + 1) :
          /\ lower_bound(heap, t, k) = PosOfMin(heap, t, {x \in S : x >= k})
          /\ upper_bound(heap, t, k) = PosOfMin(heap, t, {x \in S : x > k})
          /\ k \in S =>
                /\ lower_bound(heap, t, k) = find(heap, t, k)
                /\ upper_bound(heap, t, k) = increment(heap, find(heap, t, k))

\* The scenario {1, 3, 5, 7}: upper_bound (3) and lower_bound (4) are the
\* position of 5, upper_bound (7) is end().
C6_Witness ==
    LET t == tree["a"] IN
    /\ last = "insert"
    /\ inserted["a"] = {1, 3, 5, 7}
    /\ upper_bound(heap, t, 3) = find(heap, t, 5)
    /\ lower_bound(heap, t, 4) = find(heap, t, 5)
    /\ upper_bound(heap, t, 7) = end(t)
    /\ find(heap, t, 5) # end(t)

-----------------------------------------------------------------------------
(* Properties of copies and moves                                          *)

Other(t) == CHOOSE u \in Slots : u # t

\* The running objects that own a sentinel.
Whole(t) == status = "ok" /\ tree[t].alive /\ tree[t].end_node # NULL

\* The subtree at y repeats the subtree at x: same keys and colours at the
\* same places, and every child of the repetition has its parent link on
\* the node it hangs from.
RECURSIVE SameShape(_, _, _)
SameShape(h, x, y) ==
    IF x = NULL \/ y = NULL THEN x = y
    ELSE /\ h[x].key = h[y].key
         /\ h[x].color = h[y].color
         /\ h[y].left # NULL => h[h[y].left].parent = y
         /\ h[y].right # NULL => h[h[y].right].parent = y
         /\ SameShape(h, h[x].left, h[y].left)
         /\ SameShape(h, h[x].right, h[y].right)

\* What h holds at the addresses of region r is what g holds there.
SameRegion(g, h, r) ==
    \A p \in DOMAIN g : p[1] = r => (p \in DOMAIN h /\ h[p] = g[p])

\* C7: the copy constructor builds a structural clone of a tree that owns a
\* sentinel: same size, same keys, same shape and colours, built from new
\* nodes of its own arena, its root hanging from its own sentinel; the
\* paired walk ends, for the empty source too, and the source is not touched.
C7_CopyIsClone ==
    \A s \in Slots :
      Whole(s) =>
        LET e  == <<FirstFree(heap), 0>>
            c  == copy_ctor(heap, e, tree[s])
            rs == root(heap, tree[s])
            rc == root(c.h, c.t)
        IN  /\ c.done
            /\ size(c.t) = size(tree[s])
            /\ KeysOf(c.h, rc) = KeysOf(heap, rs)
            /\ SameShape(c.h, rs, rc)
            /\ c.t.end_node = e
            /\ rc # NULL => c.h[rc].parent = e
            /\ Range(c.t.nodes) = Subtree(c.h, rc)
            /\ Range(c.t.nodes) \cap DOMAIN heap = {}
            /\ Len(c.t.nodes) = Cardinality(Subtree(heap, rs))
            /\ \A p \in DOMAIN heap : c.h[p] = heap[p]

\* A copy of a three-key tree was just constructed next to its source.
C7_Witness ==
    /\ status = "ok"
    /\ last = "copy_ctor"
    /\ origin["a"] = "default"
    /\ origin["b"] = "copy"
    /\ size(tree["a"]) = MaxKey
    /\ size(tree["b"]) = MaxKey
    /\ SameShape(heap, root(heap, tree["a"]), root(heap, tree["b"]))
    /\ root(heap, tree["a"]) # tree["a"].nodes[1]

\* C8: every insert into a copy completes and leaves the objects of the
\* other tree as they were, and every insert into the other tree leaves the
\* objects of the copy as they were.
C8_CopyIndependent ==
    \A t \in Slots :
      (Whole(t) /\ origin[t] = "copy") =>
        \A k \in 1..MaxKey :
          LET r == insert(heap, tree[t], k, FALSE)
              u == Other(t)
          IN  /\ ~r.ub
              /\ \A q \in Regions : q # tree[t].end_node[1] => SameRegion(heap, r.h, q)
              /\ (Whole(u) /\ origin[u] = "default") =>
                    LET r2 == insert(heap, tree[u], k, FALSE)
                    IN  /\ ~r2.ub
                        /\ SameRegion(heap, r2.h, tree[t].end_node[1])

\* C9: the leftmost and rightmost caches of a copy are the copy's nodes with
\* the minimum and the maximum key, the walk over the copy yields the keys
\* of the walk over the source, and begin() == end() on the copy only for
\* an empty source.
C9_CopyCaches ==
    \A s \in Slots :
      (Whole(s) /\ origin[s] = "default") =>
        LET c  == copy_ctor(heap, <<FirstFree(heap), 0>>, tree[s])
            rc == root(c.h, c.t)
            ks == KeysOf(c.h, rc)
        IN  /\ ks # {} => /\ c.t.leftmost = NodeOfKey(c.h, rc, SetMin(ks))
                          /\ c.t.rightmost = NodeOfKey(c.h, rc, SetMax(ks))
            /\ Walk(c.h, c.t) = Walk(heap, tree[s])
            /\ begin(c.t) = end(c.t) => empty(tree[s])

\* dst holds what src held: the arena, the sentinel, both caches and the size.
HoldsContentsOf(dst, src) ==
    /\ dst.nodes = src.nodes
    /\ dst.end_node = src.end_node
    /\ dst.leftmost = src.leftmost
    /\ dst.rightmost = src.rightmost
    /\ dst.size = src.size
    /\ TreeKeys(heap, dst) = TreeKeys(heap, src)

C11_MovedFromReusable ==
    \A t \in Slots :
      (status = "ok" /\ tree[t].alive /\ origin[t] = "moved_from") =>
        /\ tree[t].end_node # NULL
        /\ tree[t].leftmost = tree[t].end_node
        /\ tree[t].rightmost = NULL
        /\ tree[t].size = 0
        /\ \A k \in 1..MaxKey :
              LET r == insert(heap, tree[t], k, FALSE) IN
              /\ ~r.ub
              /\ r.t.size = 1
              /\ root(r.h, r.t) = r.pos
              /\ r.h[r.pos].parent = r.t.end_node
              /\ r.t.leftmost = r.pos
              /\ r.t.rightmost = r.pos

\* C12: whatever the destination holds, a move assignment leaves it with the
\* arena, sentinel and size of the source, hence with its keys, shape and
\* colours; a copy assignment from a tree that owns a sentinel completes and
\* leaves the destination with the size, the keys, the shape and the colours
\* of the source in nodes of its own, releases the nodes the destination
\* had, and touches no object of the source.
C12_AssignReplaces ==
    \A d \in Slots, s \in Slots :
      (status = "ok" /\ d # s /\ tree[d].alive /\ tree[s].alive) =>
        /\ LET m == move_assign(tree[d], tree[s])
           IN  /\ m.lhs.nodes = tree[s].nodes
               /\ m.lhs.end_node = tree[s].end_node
               /\ size(m.lhs) = size(tree[s])
               /\ TreeKeys(heap, m.lhs) = TreeKeys(heap, tree[s])
        /\ tree[s].end_node # NULL =>
              LET c  == copy_assign(heap, <<FirstFree(heap), 0>>, tree[d], tree[s])
                  rs == root(heap, tree[s])
                  rc == root(c.h, c.t)
              IN  /\ c.done
                  /\ size(c.t) = size(tree[s])
                  /\ KeysOf(c.h, rc) = KeysOf(heap, rs)
                  /\ SameShape(c.h, rs, rc)
                  /\ rc # NULL => c.h[rc].parent = c.t.end_node
                  /\ Range(c.t.nodes) = Subtree(c.h, rc)
                  /\ Range(c.t.nodes) \cap DOMAIN heap = {}
                  /\ Range(tree[d].nodes) \cap DOMAIN c.h = {}
                  /\ SameRegion(heap, c.h, tree[s].end_node[1])

\* Two trees with different keys, the larger one with a rotated root, stand
\* after a move assignment: each is the destination of the next assignment.
C12_Witness ==
    /\ status = "ok"
    /\ last = "move_assign"
    /\ tree["a"].end_node # NULL
    /\ tree["b"].end_node # NULL
    /\ inserted["a"] = {1, 2}
    /\ inserted["b"] = {3}
    /\ TreeKeys(heap, tree["a"]) = {1, 2}
    /\ TreeKeys(heap, tree["b"]) = {3}

\* C13: an insert whose node allocation throws leaves every object as it
\* was before the call: the heap (links, colours, no node more) and the
\* tree (arena, caches, size); the allocation is reached, and can throw,
\* exactly for the keys that are not stored.  The tree the caller goes on
\* with still counts its keys and accepts the same insert.
C13_FailedAllocationNoChange ==
    LET t == tree["a"] IN
    /\ \A k \in 1..BulkKey, at \in AllocSteps :
          LET r == insert_failing(heap, t, k, at) IN
          /\ r.h = heap
          /\ r.t = t
          /\ r.thrown <=> k \notin KeysOf(heap, root(heap, t))
          /\ r.thrown => insert(r.h, r.t, k, FALSE).flag
    /\ Range(t.nodes) = Subtree(heap, root(heap, t))
    /\ DOMAIN heap = Range(t.nodes) \cup {t.end_node}

\* An insert into a tree of three keys has just failed at push_back or new.
C13_Witness ==
    /\ last = "insert_bad_alloc"
    /\ size(tree["a"]) = 3
    /\ Len(tree["a"].nodes) = 3
    /\ root(heap, tree["a"]) # tree["a"].nodes[1]
    /\ insert_failing(heap, tree["a"], BulkKey, "push_back").thrown

\* insert (key) called on each element of ks in order.
RECURSIVE InsertEach(_, _, _)
InsertEach(h, t, ks) ==
    IF ks = <<>> THEN [h |-> h, t |-> t]
    ELSE LET r == insert(h, t, Head(ks), FALSE)
         IN  InsertEach(r.h, r.t, Tail(ks))

\* C14: a bulk insert leaves the heap and the tree exactly as single-key
\* inserts of its elements in order do; the stored keys become the old
\* ones and those of the input, each counted once, and an input of stored
\* keys only changes nothing.
C14_BulkAsSingles ==
    LET t == tree["a"] IN
    \A ks \in BulkInputs :
      LET b   == insert_range(heap, t, ks, FALSE)
          e   == InsertEach(heap, t, ks)
          old == KeysOf(heap, root(heap, t))
      IN  /\ b.h = e.h
          /\ b.t = e.t
          /\ ~b.ub
          /\ KeysOf(b.h, root(b.h, b.t)) = old \cup Range(ks)
          /\ size(b.t) = Cardinality(old \cup Range(ks))
          /\ Range(ks) \subseteq old => (b.h = heap /\ b.t = t)

\* A bulk insert has left the keys 2 and 4; an input that repeats a stored
\* key changes nothing and an input that repeats a new key adds it once.
C14_Witness ==
    LET t == tree["a"] IN
    /\ last = "insert_range"
    /\ inserted["a"] = {2, 4}
    /\ size(t) = 2
    /\ insert_range(heap, t, <<4, 4>>, FALSE).t = t
    /\ size(insert_range(heap, t, <<3, 3>>, FALSE).t) = 3
    /\ size(insert_range(heap, t, <<4, 1>>, FALSE).t) = 3

\* C15: in every tree built by inserts, ++ moves from the position of a key
\* to that of the next greater stored key and from the maximum to end();
\* -- moves from end() to the position of the maximum, which is the
\* rightmost cache, and from any other position but begin() to that of the
\* next smaller key; -- undoes ++ and ++ undoes --.
C15_Bidirectional ==
    LET t    == tree["a"]
        S    == inserted["a"]
        up   == [k \in S |-> {x \in S : x > k}]
        down == [k \in S |-> {x \in S : x < k}]
    IN  \A at \in {[k \in S |-> NodeOfKey(heap, root(heap, t), k)]} :
        /\ \A k \in S :
              /\ increment(heap, at[k]) = (IF up[k] = {} THEN end(t) ELSE at[SetMin(up[k])])
              /\ decrement(heap, increment(heap, at[k])) = at[k]
              /\ down[k] # {} =>
                    /\ decrement(heap, at[k]) = at[SetMax(down[k])]
                    /\ increment(heap, decrement(heap, at[k])) = at[k]
        /\ S # {} =>
              /\ decrement(heap, end(t)) = at[SetMax(S)]
              /\ decrement(heap, end(t)) = t.rightmost
              /\ increment(heap, decrement(heap, end(t))) = end(t)
              /\ begin(t) = at[SetMin(S)]

\* A full tree in which one step forward climbs over two or more nodes and
\* one step backward does as well.
C15_Witness ==
    LET t == tree["a"] IN
    /\ last = "insert"
    /\ size(t) = DeepKey
    /\ \E x \in Range(t.nodes) :
          /\ heap[x].right = NULL
          /\ increment(heap, x) \notin {heap[x].parent, end(t)}
    /\ \E x \in Range(t.nodes) :
          /\ heap[x].left = NULL
          /\ x # begin(t)
          /\ decrement(heap, x) # heap[x].parent
    /\ decrement(heap, end(t)) # root(heap, t)

\* C16: after every insert into a default-constructed tree the leftmost
\* cache is the node of the minimum key, the sentinel exactly when nothing
\* is stored, and the rightmost cache is the node of the maximum key, absent
\* exactly when nothing is stored; an insert of a new key moves the leftmost
\* cache to the new node exactly when the key is below all stored keys and
\* the rightmost cache exactly when it is above them, whatever the fix-up
\* did, and never reads through an absent cache.
C16_CachesAreExtremes ==
    LET t  == tree["a"]
        S  == inserted["a"]
        rt == root(heap, t)
    IN  /\ t.leftmost = end_node(t) <=> S = {}
        /\ t.rightmost = NULL <=> S = {}
        /\ S # {} => /\ t.leftmost = NodeOfKey(heap, rt, SetMin(S))
                     /\ t.rightmost = NodeOfKey(heap, rt, SetMax(S))
        /\ \A k \in (1..DeepKey) \ S :
              LET r == insert(heap, t, k, FALSE) IN
              /\ ~r.ub
              /\ r.t.leftmost = r.pos <=> \A x \in S : k < x
              /\ r.t.rightmost = r.pos <=> \A x \in S : x < k
              /\ r.t.leftmost # r.pos => r.t.leftmost = t.leftmost
              /\ r.t.rightmost # r.pos => r.t.rightmost = t.rightmost

\* Three keys were inserted in descending order: the last insert hung the
\* new minimum under the old one and rotated the root away.  From here a
\* new maximum is inserted with a recolouring only, and a key in between
\* leaves both caches alone.
C16_Witness ==
    LET t  == tree["a"]
        S  == inserted["a"]
    IN  /\ last = "insert"
        /\ size(t) = 3
        /\ t.leftmost = t.nodes[3]
        /\ root(heap, t) = t.nodes[2]
        /\ t.rightmost = t.nodes[1]
        /\ \E k \in (1..DeepKey) \ S :
              LET r == insert(heap, t, k, FALSE) IN
              /\ r.t.rightmost = r.pos
              /\ \A x \in Range(t.nodes) :
                    /\ r.h[x].left = heap[x].left \/ heap[x].left = NULL
                    /\ r.h[x].right = heap[x].right \/ heap[x].right = NULL
              /\ \E x \in Range(t.nodes) : r.h[x].color # heap[x].color
        /\ \E k \in (1..DeepKey) \ S :
              LET r == insert(heap, t, k, FALSE) IN
              /\ r.t.leftmost = t.leftmost
              /\ r.t.rightmost = t.rightmost

\* The links that name n as a child, among the sentinel e and the nodes N.
LinksTo(h, e, N, n) ==
    {<<p, "left">> : p \in {q \in N \cup {e} : h[q].left = n}}
        \cup {<<p, "right">> : p \in {q \in N : h[q].right = n}}

\* C17: in every running tree that owns a sentinel, after inserts, copies,
\* assignments and swaps: the node at sentinel.left has the sentinel of its
\* own tree as parent and is absent exactly when the arena is empty; every
\* other node is the left or right child of the node its parent link
\* names, and that node is of the same arena; every node of the arena is
\* named by exactly one child link and is reached from the root, which
\* reaches no other node; the arena holds size() nodes, no node twice.
C17_LinksWellFormed ==
    \A t \in Slots :
      Whole(t) =>
        LET e  == tree[t].end_node
            N  == Range(tree[t].nodes)
            rt == root(heap, tree[t])
        IN  /\ N \cup {e} \subseteq DOMAIN heap
            /\ rt = NULL <=> N = {}
            /\ rt # NULL => (rt \in N /\ heap[rt].parent = e)
            /\ \A n \in N \ {rt} :
                  /\ heap[n].parent \in N
                  /\ n = heap[heap[n].parent].left \/ n = heap[heap[n].parent].right
            /\ \A n \in N :
                  /\ Cardinality(LinksTo(heap, e, N, n)) = 1
                  /\ heap[n].left \in N \cup {NULL}
                  /\ heap[n].right \in N \cup {NULL}
            /\ Subtree(heap, rt) = N
            /\ Len(tree[t].nodes) = size(tree[t])
            /\ Cardinality(N) = size(tree[t])

\* Next to its two-key source stands a copy into which a new minimum was
\* inserted: the rotation of the fix-up replaced the root of the copy.
C17_Witness ==
    /\ status = "ok"
    /\ last = "insert"
    /\ origin["a"] = "default"
    /\ origin["b"] = "copy"
    /\ size(tree["a"]) = 2
    /\ size(tree["b"]) = 3
    /\ root(heap, tree["b"]) # tree["b"].nodes[1]
    /\ heap[root(heap, tree["b"])].parent = tree["b"].end_node

\* The number of parent links from x up to the sentinel e.
RECURSIVE Depth(_, _, _)
Depth(h, e, x) == IF x = e THEN 0 ELSE 1 + Depth(h, e, h[x].parent)

\* The iterations the loop of the fix-up makes from cursor z, each with
\* the depth of the cursor before it.  A run is cut off with the mark
\* "sentinel" where the parent or the grandparent of the cursor is the
\* sentinel, and with "unfinished" after fuel iterations.
RECURSIVE FixupRun(_, _, _, _)
FixupRun(h, e, z, fuel) ==
    IF ~loop_goes_on(h, e, z) THEN <<>>
    ELSE IF h[z].parent = e \/ h[h[z].parent].parent = e THEN
      <<[h |-> h, z |-> z, kind |-> "sentinel", p |-> h[z].parent,
         g |-> NULL, u |-> NULL, depth |-> Depth(h, e, z)]>>
    ELSE IF fuel = 0 THEN
      <<[h |-> h, z |-> z, kind |-> "unfinished", p |-> h[z].parent,
         g |-> NULL, u |-> NULL, depth |-> Depth(h, e, z)]>>
    ELSE
      LET st == fixup_step(h, z)
      IN  <<[h |-> st.h, z |-> st.z, kind |-> st.kind, p |-> st.p, g |-> st.g,
             u |-> st.u, depth |-> Depth(h, e, z)]>>
            \o FixupRun(st.h, e, st.z, fuel - 1)

\* The fix-up that insert (k) starts on tree t: the heap with the red leaf
\* linked, the leaf, and the run of the loop.
FixupOf(h, t, k) ==
    LET f  == details_find_v2(h, root(h, t), k)
        a  == insert_node(h, t, k, "red")
        h2 == link_child(a.h, f.parent, a.node, k)
    IN  [h |-> h2, n |-> a.node,
         run |-> FixupRun(h2, t.end_node, a.node, Len(t.nodes) + 1)]

\* C18: on every insert of a new key into a non-empty tree the loop of the
\* fix-up ends, within half as many iterations as the leaf is deep; every
\* iteration works on a parent, a grandparent and an uncle that are nodes
\* of the arena (the uncle may be absent), never the sentinel; an
\* iteration with a red uncle recolours and leaves the cursor on the
\* grandparent, two levels up and not on the sentinel; an iteration with a
\* black or absent uncle rotates and is the last one; the loop leaves the
\* heap that rb_insert_fixup goes on with.
C18_FixupTerminates ==
    LET t == tree["a"]
        N == Range(t.nodes)
        e == t.end_node
    IN  \A k \in (0..(DeepKey + 1)) \ inserted["a"] :
          ~empty(t) =>
            LET fx  == FixupOf(heap, t, k)
                run == fx.run
                n   == Len(run)
            IN  /\ 2 * n <= Depth(fx.h, e, fx.n)
                /\ \A i \in 1..n :
                      /\ run[i].kind \in {"recolour", "rotate"}
                      /\ run[i].p \in N
                      /\ run[i].g \in N
                      /\ run[i].u \in N \cup {NULL}
                      /\ run[i].z \in N \cup {fx.n}
                      /\ run[i].kind = "recolour" =>
                            /\ run[i].z = run[i].g
                            /\ Depth(run[i].h, e, run[i].z) = run[i].depth - 2
                      /\ run[i].kind = "rotate" => i = n
                /\ fixup_loop(fx.h, e, fx.n) = (IF n = 0 THEN fx.h ELSE run[n].h)
                /\ rb_insert_fixup(fx.h, root(fx.h, t), fx.n)
                      = insert(heap, t, k, FALSE).h

\* A full tree into which the insert of a new maximum recolours first, two
\* levels below the root, and then rotates at the root.
C18_Witness ==
    LET t   == tree["a"]
        run == FixupOf(heap, t, DeepKey + 1).run
    IN  /\ last = "insert"
        /\ size(t) = DeepKey
        /\ Len(run) = 2
        /\ run[1].kind = "recolour"
        /\ run[2].kind = "rotate"
        /\ run[2].g = root(heap, t)

\* The number of nodes on the longest path from x down to an absent child.
RECURSIVE Height(_, _)
Height(h, x) ==
    IF x = NULL THEN 0
    ELSE LET l == Height(h, h[x].left)
             r == Height(h, h[x].right)
         IN  1 + (IF l < r THEN r ELSE l)

RECURSIVE Pow2(_)
Pow2(n) == IF n = 0 THEN 1 ELSE 2 * Pow2(n - 1)

\* C19: after any sequence of inserts that leaves n keys, the longest path
\* from the root to an absent child has at most 2 * log2 (n + 1) nodes,
\* that is 2 ^ height <= (n + 1) ^ 2.
C19_HeightLogarithmic ==
    LET t == tree["a"]
        n == size(t)
    IN  /\ n = Cardinality(inserted["a"])
        /\ Pow2(Height(heap, root(heap, t))) <= (n + 1) * (n + 1)

\* AscKey keys were inserted in ascending order: the last one lies deeper
\* than the first, and the tree is far lower than a list.
C19_Witness ==
    LET t == tree["a"] IN
    /\ last = "insert"
    /\ size(t) = AscKey
    /\ \A i \in 1..AscKey : heap[t.nodes[i]].key = i
    /\ Depth(heap, t.end_node, t.nodes[AscKey]) > Depth(heap, t.end_node, t.nodes[1])
    /\ 4 * Height(heap, root(heap, t)) < AscKey

\* The tree holds three keys that were inserted in ascending order.
ThreeAscending(h, t) ==
    /\ Len(t.nodes) = 3
    /\ h[t.nodes[1]].key < h[t.nodes[2]].key
    /\ h[t.nodes[2]].key < h[t.nodes[3]].key

\* Of the inserts of 10, 20, 30 into the empty tree, the first two rotate
\* nothing and the third makes one iteration of the fix-up: a rotation at
\* the root, to the left, with the new node on the outer side.
OneLeftRotationAtRoot(h, t) ==
    LET e1 == InsertEach(h, t, <<10>>)
        e2 == InsertEach(h, t, <<10, 20>>)
        fx == FixupOf(e2.h, e2.t, 30)
        rt == root(e2.h, e2.t)
    IN  /\ FixupOf(e1.h, e1.t, 20).run = <<>>
        /\ Len(fx.run) = 1
        /\ fx.run[1].kind = "rotate"
        /\ fx.run[1].g = rt
        /\ fx.run[1].p = fx.h[rt].right
        /\ fx.n = fx.h[fx.run[1].p].right
        /\ fx.run[1].z = fx.n

\* The tree is a root with key k and colour c between two leaves with the
\* keys l and r, both of colour cc.
RootWithLeaves(h, t, l, k, r, c, cc) ==
    LET rt == root(h, t) IN
    /\ rt # NULL /\ h[rt].left # NULL /\ h[rt].right # NULL
    /\ h[rt].key = k /\ h[rt].color = c
    /\ h[h[rt].left].key = l /\ h[h[rt].left].color = cc
    /\ h[h[rt].right].key = r /\ h[h[rt].right].color = cc
    /\ Cardinality(Subtree(h, rt)) = 3

\* A tree default-constructed next to the objects of the state.
FreshSentinel == <<FirstFree(heap), 0>>
FreshHeap == heap @@ (FreshSentinel :> EndRec)
FreshTree == DefaultTree(FreshSentinel)

\* C20 as claimed: inserting 10, 20, 30 in that order into an empty tree
\* performs a single left rotation at the root and ends with root 20
\* black, left child 10 black and right child 30 black.  Stated of the
\* tree of the state when it got three keys in ascending order, and of
\* the keys 10, 20, 30 inserted into a tree constructed there.
C20_AscendingTripleBlack ==
    LET t == tree["a"] IN
    ThreeAscending(heap, t) =>
      /\ RootWithLeaves(heap, t, heap[t.nodes[1]].key, heap[t.nodes[2]].key,
                        heap[t.nodes[3]].key, "black", "black")
      /\ LET e3 == InsertEach(FreshHeap, FreshTree, <<10, 20, 30>>)
         IN  /\ OneLeftRotationAtRoot(FreshHeap, FreshTree)
             /\ RootWithLeaves(e3.h, e3.t, 10, 20, 30, "black", "black")

\* C20 as amended: inserting 10, 20, 30 in that order into an empty tree
\* performs a single left rotation at the root and ends with root 20
\* black, left child 10 red and right child 30 red, the root being the
\* node inserted second.  Stated of the tree of the state when it got
\* three keys in ascending order, and of the keys 10, 20, 30 inserted into
\* a tree constructed there.
C20_AscendingTriple ==
    LET t == tree["a"] IN
    ThreeAscending(heap, t) =>
      /\ RootWithLeaves(heap, t, heap[t.nodes[1]].key, heap[t.nodes[2]].key,
                        heap[t.nodes[3]].key, "black", "red")
      /\ root(heap, t) = t.nodes[2]
      /\ LET e3 == InsertEach(FreshHeap, FreshTree, <<10, 20, 30>>)
         IN  /\ OneLeftRotationAtRoot(FreshHeap, FreshTree)
             /\ RootWithLeaves(e3.h, e3.t, 10, 20, 30, "black", "red")
             /\ root(e3.h, e3.t) = e3.t.nodes[2]
             /\ size(e3.t) = 3

\* Three keys have just been inserted in ascending order and the node
\* inserted first is no longer the root.
C20_Witness ==
    LET t == tree["a"] IN
    /\ last = "insert"
    /\ ThreeAscending(heap, t)
    /\ root(heap, t) # t.nodes[1]
    /\ heap[t.nodes[3]].parent = t.nodes[2]

====
